---- MODULE Spec2Model ----
(***************************************************************************)
(* Model of scripts/process_wells.py: one sequential scan of the well CSV  *)
(* (parse, filter, group by county) followed by the writing of             *)
(* counties.json, one file per county and index.json.                      *)
(*                                                                         *)
(* Text is a sequence of one-character strings.  A Python value that is    *)
(* either a str or None is [some, text]; a parsed number is [k, v] with    *)
(* k in "none", "num", "inf", "nan", "raise".  Floating point numbers are  *)
(* fixed point integers with FracDigits decimal digits.                    *)
(***************************************************************************)
EXTENDS Integers, Sequences, FiniteSets, TLC

VARIABLES pc, total_records, records_with_coords, records_with_depth,
          counties, wells_by_county, files, log, last

vars == <<pc, total_records, records_with_coords, records_with_depth,
          counties, wells_by_county, files, log, last>>

----------------------------------------------------------------------------
(* Bounds of the model *)

MaxRows == 2
MaxDateLen == 5
FracDigits == 6

(* Program constants *)

MinLat == 32
MaxLat == 42
MinLon == -125
MaxLon == -114
RoundDigits == 5
MinDateLen == 4
DateParts == 3

----------------------------------------------------------------------------
(* Text helpers *)

RECURSIVE Pow10(_)
Pow10(n) == IF n <= 0 THEN 1 ELSE 10 * Pow10(n - 1)

Scale == Pow10(FracDigits)

Digits == <<"0", "1", "2", "3", "4", "5", "6", "7", "8", "9">>

IsDigit(c) == \E i \in 1..Len(Digits) : Digits[i] = c

DigitVal(c) == (CHOOSE i \in 1..Len(Digits) : Digits[i] = c) - 1

AllDigits(t) == \A i \in 1..Len(t) : IsDigit(t[i])

RECURSIVE DigitsVal(_)
DigitsVal(t) ==
  IF t = <<>> THEN 0
  ELSE DigitsVal(SubSeq(t, 1, Len(t) - 1)) * 10 + DigitVal(t[Len(t)])

RECURSIVE LStrip(_)
LStrip(s) == IF s # <<>> /\ Head(s) = " " THEN LStrip(Tail(s)) ELSE s

RECURSIVE RStrip(_)
RStrip(s) ==
  IF s # <<>> /\ s[Len(s)] = " " THEN RStrip(SubSeq(s, 1, Len(s) - 1)) ELSE s

(* str.strip() on text whose only whitespace character is the space *)
Strip(s) == RStrip(LStrip(s))

Contains(s, c) == \E i \in 1..Len(s) : s[i] = c

(* str.split(sep) for a one-character separator *)
RECURSIVE Split(_, _)
Split(s, sep) ==
  IF ~Contains(s, sep) THEN <<s>>
  ELSE LET i == CHOOSE k \in 1..Len(s) :
                  s[k] = sep /\ \A j \in 1..(k - 1) : s[j] # sep
       IN <<SubSeq(s, 1, i - 1)>> \o Split(SubSeq(s, i + 1, Len(s)), sep)

(* s[:n] *)
Prefix(s, n) == SubSeq(s, 1, IF Len(s) < n THEN Len(s) ELSE n)

----------------------------------------------------------------------------
(* Python values *)

None == [some |-> FALSE, text |-> <<>>]
Str(s) == [some |-> TRUE, text |-> s]

NoneV == [k |-> "none", v |-> 0]
Num(n) == [k |-> "num", v |-> n]
Inf(sign) == [k |-> "inf", v |-> sign]
NaN == [k |-> "nan", v |-> 0]
Raise == [k |-> "raise", v |-> 0]

(* truth value of `val and val.strip()` *)
Truthy(val) == val.some /\ val.text # <<>> /\ Strip(val.text) # <<>>

Unsigned(s) == IF s # <<>> /\ Head(s) \in {"+", "-"} THEN Tail(s) ELSE s
SignOf(s) == IF s # <<>> /\ Head(s) = "-" THEN -1 ELSE 1

(* float(text): the decimal literals [sign] digits [. digits], "inf" and   *)
(* "nan"; anything else is a ValueError, reported as NoneV.  Literals with *)
(* exponents, underscores or more than FracDigits fractional digits are    *)
(* outside the texts the model draws.                                      *)
PyFloat(text) ==
  LET s == Strip(text)
      b == Unsigned(s)
      parts == Split(b, ".")
      ip == parts[1]
      fp == IF Len(parts) = 2 THEN parts[2] ELSE <<>>
  IN IF b = <<"i", "n", "f">> THEN Inf(SignOf(s))
     ELSE IF b = <<"n", "a", "n">> THEN NaN
     ELSE IF /\ Len(parts) <= 2
             /\ AllDigits(ip) /\ AllDigits(fp)
             /\ Len(ip) + Len(fp) >= 1
             /\ Len(fp) <= FracDigits
          THEN Num(SignOf(s) * (DigitsVal(ip) * Scale
                                + DigitsVal(fp) * Pow10(FracDigits - Len(fp))))
          ELSE NoneV

(* int(text): [sign] digits, surrounding spaces allowed; NoneV on ValueError *)
PyInt(text) ==
  LET s == Strip(text)
      b == Unsigned(s)
  IN IF b # <<>> /\ AllDigits(b) THEN Num(SignOf(s) * DigitsVal(b)) ELSE NoneV

(* int(float): truncation toward zero *)
Trunc(v) == IF v >= 0 THEN v \div Scale ELSE -((-v) \div Scale)

parse_float(val) == IF Truthy(val) THEN PyFloat(val.text) ELSE NoneV

(* int(float(val)): OverflowError on an infinity is not among the caught   *)
(* exceptions and propagates (Raise); ValueError on a NaN is caught.       *)
parse_int(val) ==
  IF ~Truthy(val) THEN NoneV
  ELSE LET f == PyFloat(val.text)
       IN CASE f.k = "num" -> Num(Trunc(f.v))
            [] f.k = "inf" -> Raise
            [] OTHER -> NoneV

(* round(x, 5) on a value with FracDigits fractional digits: the set of    *)
(* results the binary representation of x can give (both neighbours on a   *)
(* decimal tie, whose direction depends on the double nearest to x).       *)
RoundUnit == Pow10(FracDigits - RoundDigits)

RoundCoord(x) ==
  LET lo == (x \div RoundUnit) * RoundUnit
      r == x - lo
  IN IF 2 * r < RoundUnit THEN {lo}
     ELSE IF 2 * r > RoundUnit THEN {lo + RoundUnit}
     ELSE {lo, lo + RoundUnit}

(* round(num / den) to the nearest integer, ties to even *)
RoundHalfEven(num, den) ==
  LET q == num \div den
      r == num - q * den
  IN IF 2 * r < den THEN q
     ELSE IF 2 * r > den THEN q + 1
     ELSE IF q % 2 = 0 THEN q ELSE q + 1

----------------------------------------------------------------------------
(* Rows of csv.DictReader: a field is absent from the dict (no such        *)
(* column), present with value None (short row) or present with a text.    *)

Fields == {"DECIMALLATITUDE", "DECIMALLONGITUDE", "TOTALDRILLDEPTH",
           "TOTALCOMPLETEDDEPTH", "STATICWATERLEVEL", "WELLYIELD",
           "DATEWORKENDED", "COUNTYNAME"}

Absent == [p |-> "absent", s |-> <<>>]
Short == [p |-> "none", s |-> <<>>]
Txt(s) == [p |-> "text", s |-> s]

(* row.get(f) *)
Get(row, f) == IF row[f].p = "text" THEN Str(row[f].s) ELSE None

(* row.get(f, default) *)
GetDefault(row, f, default) ==
  CASE row[f].p = "absent" -> Str(default)
    [] row[f].p = "none" -> None
    [] OTHER -> Str(row[f].s)

Unknown == <<"U", "n", "k", "n", "o", "w", "n">>

----------------------------------------------------------------------------
(* Field Normalizer: lines 59-119 of process_wells *)

(* lines 64-69: both coordinates parsed and inside the envelope *)
InRange(x, lo, hi) == x.k = "num" /\ lo * Scale <= x.v /\ x.v <= hi * Scale

CoordsOk(lat, lon) ==
  /\ lat.k # "none" /\ lon.k # "none"
  /\ InRange(lat, MinLat, MaxLat) /\ InRange(lon, MinLon, MaxLon)

(* `a or b` on parsed integers *)
PyOr(a, b) == IF a.k = "num" /\ a.v # 0 THEN a ELSE b

(* lines 74-76 *)
TotalDepth(row) == parse_int(Get(row, "TOTALDRILLDEPTH"))
CompletedDepth(row) == parse_int(Get(row, "TOTALCOMPLETEDDEPTH"))
DepthOf(row) == PyOr(CompletedDepth(row), TotalDepth(row))
DepthRaises(row) ==
  TotalDepth(row).k = "raise" \/ CompletedDepth(row).k = "raise"

(* lines 82-84; .strip() on None raises AttributeError *)
CountyRaises(row) == ~GetDefault(row, "COUNTYNAME", Unknown).some
CountyOf(row) ==
  LET county == Strip(GetDefault(row, "COUNTYNAME", Unknown).text)
  IN IF county = <<>> THEN Unknown ELSE county

(* ExtractYear taking the day for the year: parts[1] instead of parts[2] *)
ExtractYearSecondPart(date_str) ==
  IF date_str.some /\ date_str.text # <<>> /\ Len(date_str.text) >= MinDateLen
  THEN IF Contains(date_str.text, "/")
       THEN LET parts == Split(date_str.text, "/")
            IN IF Len(parts) = DateParts THEN PyInt(parts[DateParts - 1]) ELSE NoneV
       ELSE IF Contains(date_str.text, "-")
            THEN PyInt(Prefix(date_str.text, MinDateLen))
            ELSE NoneV
  ELSE NoneV

(* lines 104-116 *)
ExtractYear(date_str) ==
  IF date_str.some /\ date_str.text # <<>> /\ Len(date_str.text) >= MinDateLen
  THEN IF Contains(date_str.text, "/")
       THEN LET parts == Split(date_str.text, "/")
            IN IF Len(parts) = DateParts THEN PyInt(parts[DateParts]) ELSE NoneV
       ELSE IF Contains(date_str.text, "-")
            THEN PyInt(Prefix(date_str.text, MinDateLen))
            ELSE NoneV
  ELSE NoneV

(* lines 94-101 and 119: the record without its None-valued keys *)
WellKeys == {"lat", "lon", "depth", "static", "yield", "year"}

Well(lat, lon, depth, static, yield, year) ==
  LET full == [key \in WellKeys |->
                 CASE key = "lat" -> Num(lat)
                   [] key = "lon" -> Num(lon)
                   [] key = "depth" -> depth
                   [] key = "static" -> static
                   [] key = "yield" -> yield
                   [] OTHER -> year]
  IN [key \in {x \in WellKeys : full[x].k # "none"} |->
        IF key = "yield" THEN full[key] ELSE full[key].v]

(* w.get(key) *)
WellGet(w, key) == IF key \in DOMAIN w THEN Num(w[key]) ELSE NoneV

NoWell == [key \in {} |-> 0]

(* lines 87-91 *)
TrackCounty(cs, county, depth) ==
  LET old == IF county \in DOMAIN cs THEN cs[county]
             ELSE [count |-> 0, depths |-> <<>>]
      new == [count |-> old.count + 1,
              depths |-> IF depth.k = "num" /\ depth.v # 0
                         THEN Append(old.depths, depth.v) ELSE old.depths]
  IN [c \in DOMAIN cs \cup {county} |-> IF c = county THEN new ELSE cs[c]]

(* line 121: defaultdict(list) append *)
AppendWell(wbc, county, well) ==
  [c \in DOMAIN wbc \cup {county} |->
     IF c = county
     THEN Append(IF county \in DOMAIN wbc THEN wbc[county] ELSE <<>>, well)
     ELSE wbc[c]]

(* One iteration of the loop at line 53.  An exception that is not caught  *)
(* ends the process with the updates made before it in place.              *)
ProcessRow(row) ==
  LET lat == parse_float(Get(row, "DECIMALLATITUDE"))
      lon == parse_float(Get(row, "DECIMALLONGITUDE"))
      depth == DepthOf(row)
      county == CountyOf(row)
      static == parse_int(Get(row, "STATICWATERLEVEL"))
      yield == parse_float(Get(row, "WELLYIELD"))
      year == ExtractYear(GetDefault(row, "DATEWORKENDED", <<>>))
  IN /\ pc = "scan"
     /\ total_records < MaxRows
     /\ total_records' = total_records + 1
     /\ UNCHANGED <<files, log>>
     /\ IF ~CoordsOk(lat, lon)
        THEN /\ last' = [row |-> row, outcome |-> "reject",
                         county |-> <<>>, well |-> NoWell]
             /\ UNCHANGED <<pc, records_with_coords, records_with_depth,
                            counties, wells_by_county>>
        ELSE
        /\ records_with_coords' = records_with_coords + 1
        /\ IF DepthRaises(row)
           THEN /\ pc' = "crashed"
                /\ last' = [row |-> row, outcome |-> "raise",
                            county |-> <<>>, well |-> NoWell]
                /\ UNCHANGED <<records_with_depth, counties, wells_by_county>>
           ELSE
           /\ records_with_depth' =
                IF depth.k # "none" THEN records_with_depth + 1
                ELSE records_with_depth
           /\ IF CountyRaises(row)
              THEN /\ pc' = "crashed"
                   /\ last' = [row |-> row, outcome |-> "raise",
                               county |-> <<>>, well |-> NoWell]
                   /\ UNCHANGED <<counties, wells_by_county>>
              ELSE
              /\ counties' = TrackCounty(counties, county, depth)
              /\ IF static.k = "raise"
                 THEN /\ pc' = "crashed"
                      /\ last' = [row |-> row, outcome |-> "raise",
                                  county |-> county, well |-> NoWell]
                      /\ UNCHANGED wells_by_county
                 ELSE \E rlat \in RoundCoord(lat.v), rlon \in RoundCoord(lon.v) :
                        LET well == Well(rlat, rlon, depth, static, yield, year)
                        IN /\ wells_by_county' =
                                AppendWell(wells_by_county, county, well)
                           /\ last' = [row |-> row, outcome |-> "accept",
                                       county |-> county, well |-> well]
                           /\ UNCHANGED pc

----------------------------------------------------------------------------
(* Artifact Writer: lines 128-186 of process_wells *)

(* The characters of county names, in code point order *)
CodePoints == <<" ", "-", ".", "A", "U", "a", "b", "k", "n", "o", "u", "w">>

Ord(c) == CHOOSE i \in 1..Len(CodePoints) : CodePoints[i] = c

(* str < str *)
RECURSIVE LexLess(_, _)
LexLess(a, b) ==
  IF a = <<>> THEN b # <<>>
  ELSE IF b = <<>> THEN FALSE
  ELSE IF Head(a) = Head(b) THEN LexLess(Tail(a), Tail(b))
  ELSE Ord(Head(a)) < Ord(Head(b))

(* the keys of sorted(wells_by_county.items()) *)
RECURSIVE SortedNames(_)
SortedNames(S) ==
  IF S = {} THEN <<>>
  ELSE LET m == CHOOSE x \in S : \A y \in S \ {x} : LexLess(x, y)
       IN <<m>> \o SortedNames(S \ {m})

LowerChar(c) == CASE c = "A" -> "a" [] c = "U" -> "u" [] OTHER -> c

(* county.lower().replace(' ', '-').replace('.', '') *)
RECURSIVE SafeName(_)
SafeName(county) ==
  IF county = <<>> THEN <<>>
  ELSE LET c == LowerChar(Head(county))
       IN (IF c = "." THEN <<>> ELSE IF c = " " THEN <<"-">> ELSE <<c>>)
          \o SafeName(Tail(county))

JsonSuffix == <<".", "j", "s", "o", "n">>
FileName(county) == SafeName(county) \o JsonSuffix
CountiesPath == <<"c", "o", "u", "n", "t", "i", "e", "s">> \o JsonSuffix
IndexPath == <<"i", "n", "d", "e", "x">> \o JsonSuffix

RECURSIVE SumSeq(_)
SumSeq(q) == IF q = <<>> THEN 0 ELSE Head(q) + SumSeq(Tail(q))

SeqMin(q) == CHOOSE x \in {q[i] : i \in 1..Len(q)} : \A i \in 1..Len(q) : x <= q[i]
SeqMax(q) == CHOOSE x \in {q[i] : i \in 1..Len(q)} : \A i \in 1..Len(q) : x >= q[i]

(* line 131: [w.get('depth') for w in wells if w.get('depth')] *)
HasTruthyDepth(w) == WellGet(w, "depth").k = "num" /\ WellGet(w, "depth").v # 0
DepthList(wells) ==
  LET kept == SelectSeq(wells, HasTruthyDepth)
  IN [i \in 1..Len(kept) |-> kept[i].depth]

(* lines 130-142 *)
CountySummary(county, wells) ==
  LET depths == DepthList(wells)
  IN [name |-> county,
      count |-> Len(wells),
      avgDepth |-> IF depths # <<>>
                   THEN Num(RoundHalfEven(SumSeq(depths), Len(depths)))
                   ELSE NoneV,
      minDepth |-> IF depths # <<>> THEN Num(SeqMin(depths)) ELSE NoneV,
      maxDepth |-> IF depths # <<>> THEN Num(SeqMax(depths)) ELSE NoneV]

CountyStats(wbc) ==
  LET names == SortedNames(DOMAIN wbc)
  IN [i \in 1..Len(names) |-> CountySummary(names[i], wbc[names[i]])]

(* lines 165-181 *)
IndexEntry(county, wells) ==
  LET lats == [i \in 1..Len(wells) |-> wells[i].lat]
      lons == [i \in 1..Len(wells) |-> wells[i].lon]
  IN [name |-> county,
      file |-> FileName(county),
      count |-> Len(wells),
      bounds |-> [minLat |-> SeqMin(lats), maxLat |-> SeqMax(lats),
                  minLon |-> SeqMin(lons), maxLon |-> SeqMax(lons)]]

Index(wbc) ==
  LET names == SortedNames(DOMAIN wbc)
  IN [i \in 1..Len(names) |-> IndexEntry(names[i], wbc[names[i]])]

(* open(path, 'w') followed by a json.dump that completes *)
WriteFile(fs, path, data) ==
  [q \in DOMAIN fs \cup {path} |->
     IF q = path THEN [complete |-> TRUE, data |-> data] ELSE fs[q]]

(* open(path, 'w') followed by a json.dump that raises part way *)
TruncateFile(fs, path) ==
  [q \in DOMAIN fs \cup {path} |->
     IF q = path THEN [complete |-> FALSE, data |-> <<>>] ELSE fs[q]]

(* the regions whose file the loop at line 152 has written so far *)
RegionsWritten == Len(SelectSeq(log, LAMBDA e : e.kind = "region"))

(* NextCounty without sorted(): the regions taken in descending order *)
NextCountyDescending ==
  LET names == SortedNames(DOMAIN wells_by_county)
  IN names[Len(names) - RegionsWritten]

(* the county the loop at line 152 is at *)
NextCounty == SortedNames(DOMAIN wells_by_county)[RegionsWritten + 1]

(* the path the statement at pc opens *)
NextPath ==
  CASE pc = "summary" -> CountiesPath
    [] pc = "files" -> FileName(NextCounty)
    [] OTHER -> IndexPath

AfterRegion(n) ==
  IF n < Cardinality(DOMAIN wells_by_county) THEN "files" ELSE "index"

----------------------------------------------------------------------------
(* Actions *)

NoRow == [f \in Fields |-> Absent]

Init ==
  /\ pc = "start"
  /\ total_records = 0
  /\ records_with_coords = 0
  /\ records_with_depth = 0
  /\ counties = [c \in {} |-> 0]
  /\ wells_by_county = [c \in {} |-> 0]
  /\ files = [q \in {} |-> 0]
  /\ log = <<>>
  /\ last = [row |-> NoRow, outcome |-> "none", county |-> <<>>, well |-> NoWell]

scanState == <<total_records, records_with_coords, records_with_depth,
               counties, wells_by_county, last>>

(* line 35 *)
Mkdir ==
  /\ pc = "start"
  /\ pc' = "open"
  /\ UNCHANGED <<scanState, files, log>>

MkdirFail ==
  /\ pc = "start"
  /\ pc' = "abort_mkdir"
  /\ UNCHANGED <<scanState, files, log>>

(* line 50 *)
OpenSource ==
  /\ pc = "open"
  /\ pc' = "scan"
  /\ UNCHANGED <<scanState, files, log>>

OpenSourceFail ==
  /\ pc = "open"
  /\ pc' = "abort_input"
  /\ UNCHANGED <<scanState, files, log>>

(* line 53: the reader raises (OSError, csv.Error) *)
ReadError ==
  /\ pc = "scan"
  /\ pc' = "abort_input"
  /\ UNCHANGED <<scanState, files, log>>

(* line 53: the reader is exhausted; lines 123-142 *)
EndScan ==
  /\ pc = "scan"
  /\ pc' = "summary"
  /\ UNCHANGED <<scanState, files, log>>

(* WriteSummary indented into the loop over the rows: the summary is       *)
(* written while the source is still being read                           *)
WriteSummaryInLoop ==
  /\ pc = "scan"
  /\ DOMAIN files = {}
  /\ files' = WriteFile(files, CountiesPath, CountyStats(wells_by_county))
  /\ log' = Append(log, [kind |-> "summary", name |-> <<>>, path |-> CountiesPath])
  /\ UNCHANGED <<pc, scanState>>

(* lines 145-148 *)
WriteSummary ==
  /\ pc = "summary"
  /\ files' = WriteFile(files, CountiesPath, CountyStats(wells_by_county))
  /\ log' = Append(log, [kind |-> "summary", name |-> <<>>, path |-> CountiesPath])
  /\ pc' = AfterRegion(0)
  /\ UNCHANGED scanState

(* lines 152-161, one iteration *)
WriteRegionFile ==
  /\ pc = "files"
  /\ files' = WriteFile(files, FileName(NextCounty), wells_by_county[NextCounty])
  /\ log' = Append(log, [kind |-> "region", name |-> NextCounty,
                         path |-> FileName(NextCounty)])
  /\ pc' = AfterRegion(RegionsWritten + 1)
  /\ UNCHANGED scanState

(* lines 164-186 *)
WriteIndex ==
  /\ pc = "index"
  /\ files' = WriteFile(files, IndexPath, Index(wells_by_county))
  /\ log' = Append(log, [kind |-> "index", name |-> <<>>, path |-> IndexPath])
  /\ pc' = "done"
  /\ UNCHANGED scanState

(* lines 146, 158, 184: open(path, 'w') raises *)
OpenOutputFail ==
  /\ pc \in {"summary", "files", "index"}
  /\ pc' = "abort_output"
  /\ UNCHANGED <<scanState, files, log>>

(* lines 147, 159, 185: json.dump raises after the file was opened *)
DumpFail ==
  /\ pc \in {"summary", "files", "index"}
  /\ files' = TruncateFile(files, NextPath)
  /\ pc' = "abort_output"
  /\ UNCHANGED <<scanState, log>>

----------------------------------------------------------------------------
(* The rows the reader yields *)

Row(lat, lon, total, completed, static, yield, date, county) ==
  [f \in Fields |->
     CASE f = "DECIMALLATITUDE" -> lat
       [] f = "DECIMALLONGITUDE" -> lon
       [] f = "TOTALDRILLDEPTH" -> total
       [] f = "TOTALCOMPLETEDDEPTH" -> completed
       [] f = "STATICWATERLEVEL" -> static
       [] f = "WELLYIELD" -> yield
       [] f = "DATEWORKENDED" -> date
       [] OTHER -> county]

Lat35 == Txt(<<"3", "5">>)
Lat365 == Txt(<<"3", "6", ".", "5">>)
Lon120 == Txt(<<"-", "1", "2", "0">>)
CountyAb == Txt(<<"A", " ", "b">>)

LatOpts ==
  {Absent,
   Short,
   Txt(<<>>),
   Txt(<<" ">>),
   Txt(<<"x">>),
   Txt(<<"n", "a", "n">>),
   Txt(<<"i", "n", "f">>),
   Txt(<<"3", "1", ".", "9", "9", "9", "9", "9", "9">>),
   Txt(<<"3", "2">>),
   Txt(<<"3", "5", ".", "0", "0", "0", "0", "0", "5">>),
   Txt(<<" ", "3", "6", ".", "5", " ">>),
   Txt(<<"4", "1", ".", "9", "9", "9", "9", "9", "6">>),
   Txt(<<"4", "2", ".", "0", "0", "0", "0", "0", "1">>),
   Txt(<<"5", "0">>)}

LonOpts ==
  {Txt(<<>>),
   Txt(<<"-", "1", "2", "5", ".", "0", "0", "0", "0", "0", "1">>),
   Txt(<<"-", "1", "1", "4">>),
   Txt(<<"-", "1", "1", "3", ".", "9", "9", "9", "9", "9", "9">>),
   Txt(<<"1", "2", "0">>)}

CountyOpts ==
  {Absent,
   Short,
   Txt(<<>>),
   Txt(<<" ", " ">>),
   Txt(<<"u", "n", "k", "n", "o", "w", "n">>),
   Txt(<<"a", "-", "b">>),
   Txt(<<" ", "A", " ", "b", " ">>),
   Txt(<<"A", ".", "b">>)}

CompletedOpts ==
  {Absent,
   Txt(<<>>),
   Txt(<<"0">>),
   Txt(<<"1", "5", "0", ".", "0">>),
   Txt(<<"-", "7", ".", "9">>),
   Txt(<<"i", "n", "f">>)}

TotalOpts ==
  {Absent,
   Short,
   Txt(<<"0">>),
   Txt(<<"2", "0", "0">>),
   Txt(<<"x">>),
   Txt(<<"n", "a", "n">>)}

StaticOpts ==
  {Txt(<<"1", "2", ".", "9">>),
   Txt(<<"i", "n", "f">>),
   Txt(<<"x">>)}

YieldOpts ==
  {Txt(<<"2", ".", "5">>),
   Txt(<<"n", "a", "n">>),
   Txt(<<" ">>)}

DateOpts ==
  {Short,
   Txt(<<>>),
   Txt(<<"0", "3", "/", "1", "5", "/", "2", "0", "1", "0">>),
   Txt(<<"2", "0", "1", "0", "-", "0", "3", "-", "1", "5">>),
   Txt(<<"n", "o", "t", "-", "a", "-", "d", "a", "t", "e">>),
   Txt(<<"1", "/", "2">>)}

(* a well of county "A b" at (35, -120) with the given other fields *)
Plain(total, completed, static, yield, date) ==
  Row(Lat35, Lon120, total, completed, static, yield, date, CountyAb)

CoordRows ==
  {Row(lat, Lon120, Absent, Absent, Absent, Absent, Absent, CountyAb) :
     lat \in LatOpts}
  \cup {Row(Lat35, lon, Absent, Absent, Absent, Absent, Absent, CountyAb) :
          lon \in LonOpts}

CountyRows ==
  {Row(lat, Lon120, Absent, Absent, Absent, Absent, Absent, county) :
     lat \in {Lat35, Lat365}, county \in CountyOpts}

DepthRows ==
  {Plain(total, completed, Absent, Absent, Absent) :
     total \in TotalOpts, completed \in CompletedOpts}

OtherRows ==
  {Plain(Absent, Absent, static, Absent, Absent) : static \in StaticOpts}
  \cup {Plain(Absent, Absent, Absent, yield, Absent) : yield \in YieldOpts}
  \cup {Plain(Absent, Absent, Absent, Absent, date) : date \in DateOpts}

Rows == CoordRows \cup CountyRows \cup DepthRows \cup OtherRows

(* every text of at most MaxDateLen characters over DateChars *)
DateChars == {"1", "/", "-", "x", " "}

DateTexts == UNION {[1..n -> DateChars] : n \in 0..MaxDateLen}

DateRows ==
  {Plain(Absent, Absent, Absent, Absent, Txt(d)) : d \in DateTexts}

FieldRows ==
  {Plain(total, completed, static, yield, date) :
     total \in TotalOpts, completed \in CompletedOpts,
     static \in StaticOpts \cup {Absent}, yield \in YieldOpts,
     date \in DateOpts}

WideRows == Rows \cup DateRows \cup FieldRows

(* line 53, one row of the source *)
ScanRow == \E row \in Rows : ProcessRow(row)

Next ==
  \/ Mkdir
  \/ MkdirFail
  \/ OpenSource
  \/ OpenSourceFail
  \/ ScanRow
  \/ ReadError
  \/ EndScan
  \/ WriteSummary
  \/ WriteRegionFile
  \/ WriteIndex
  \/ OpenOutputFail
  \/ DumpFail

Spec == Init /\ [][Next]_vars

(* The normalizer alone: the loop body applied to one row of WideRows *)
InitRow ==
  /\ pc = "scan"
  /\ total_records = 0
  /\ records_with_coords = 0
  /\ records_with_depth = 0
  /\ counties = [c \in {} |-> 0]
  /\ wells_by_county = [c \in {} |-> 0]
  /\ files = [q \in {} |-> 0]
  /\ log = <<>>
  /\ last = [row |-> NoRow, outcome |-> "none", county |-> <<>>, well |-> NoWell]

NormalizeRow ==
  /\ total_records = 0
  /\ \E row \in WideRows : ProcessRow(row)

NextRow == NormalizeRow

SpecRow == InitRow /\ [][NextRow]_vars

----------------------------------------------------------------------------
(* Properties *)

Scanned == last.outcome # "none"
Accepted == last.outcome = "accept"

AllWells(wbc) == UNION {{wbc[c][i] : i \in 1..Len(wbc[c])} : c \in DOMAIN wbc}

InEnvelope(w) ==
  /\ MinLat * Scale <= w.lat /\ w.lat <= MaxLat * Scale
  /\ MinLon * Scale <= w.lon /\ w.lon <= MaxLon * Scale

(* both coordinates of the row parse to a number inside the envelope *)
RowCoordsValid(row) ==
  LET lat == parse_float(Get(row, "DECIMALLATITUDE"))
      lon == parse_float(Get(row, "DECIMALLONGITUDE"))
  IN /\ lat.k = "num" /\ lon.k = "num"
     /\ MinLat * Scale <= lat.v /\ lat.v <= MaxLat * Scale
     /\ MinLon * Scale <= lon.v /\ lon.v <= MaxLon * Scale

RegionPaths == DOMAIN files \ {CountiesPath, IndexPath}

RECURSIVE SumOver(_, _)
SumOver(S, f) ==
  IF S = {} THEN 0
  ELSE LET x == CHOOSE y \in S : TRUE IN f[x] + SumOver(S \ {x}, f)

(* C1: a scanned row has contributed a record to a bucket if and only if   *)
(* both of its coordinates parsed and lie in 32..42 and -125..-114, and    *)
(* every stored and every emitted record lies inside that envelope.        *)
EnvelopeFilter ==
  /\ Scanned => (Accepted <=> RowCoordsValid(last.row))
  /\ Accepted =>
       \E i \in 1..Len(wells_by_county[last.county]) :
          wells_by_county[last.county][i] = last.well
  /\ \A w \in AllWells(wells_by_county) : InEnvelope(w)
  /\ \A q \in RegionPaths :
       \A i \in 1..Len(files[q].data) : InEnvelope(files[q].data[i])

(* The envelope half of the coordinate filter: a row outside the envelope *)
(* reaches no bucket and every stored or emitted record lies inside it.   *)
StoredWellsInEnvelope ==
  /\ Accepted => RowCoordsValid(last.row)
  /\ \A w \in AllWells(wells_by_county) : InEnvelope(w)
  /\ \A q \in RegionPaths :
       \A i \in 1..Len(files[q].data) : InEnvelope(files[q].data[i])

(* C2: the depth of an emitted record is the completed depth of its row    *)
(* whenever that field parses as an integer (0 included), the total drill  *)
(* depth only when the completed depth does not parse, and is absent only  *)
(* when neither parses.                                                    *)
DepthPrefersCompleted ==
  Accepted =>
    LET completed == parse_int(Get(last.row, "TOTALCOMPLETEDDEPTH"))
        total == parse_int(Get(last.row, "TOTALDRILLDEPTH"))
        w == last.well
    IN /\ completed.k = "num" => "depth" \in DOMAIN w /\ w.depth = completed.v
       /\ (completed.k # "num" /\ total.k = "num") =>
            "depth" \in DOMAIN w /\ w.depth = total.v
       /\ "depth" \notin DOMAIN w => completed.k # "num" /\ total.k # "num"

(* C3: after a completed run the record counts of the per-region files     *)
(* present add up to records_with_coords and to the sum of the count       *)
(* fields of counties.json.                                                *)
CountsAgree ==
  pc = "done" =>
    LET summary == files[CountiesPath].data
    IN /\ SumOver(RegionPaths, [q \in RegionPaths |-> Len(files[q].data)])
            = records_with_coords
       /\ SumOver(1..Len(summary), [i \in 1..Len(summary) |-> summary[i].count])
            = records_with_coords

(* C4: in counties.json avgDepth is the rounded mean, minDepth the minimum *)
(* and maxDepth the maximum of the depths of the records of the region     *)
(* that carry a depth field, and all three are null exactly when no record *)
(* of the region carries one.                                              *)
DepthStatsOverCarriedDepths ==
  pc = "done" =>
    \A i \in 1..Len(files[CountiesPath].data) :
      LET e == files[CountiesPath].data[i]
          wells == wells_by_county[e.name]
          carry == {j \in 1..Len(wells) : "depth" \in DOMAIN wells[j]}
          n == Cardinality(carry)
          sum == SumOver(carry, [j \in carry |-> wells[j].depth])
      IN IF carry = {}
         THEN e.avgDepth.k = "none" /\ e.minDepth.k = "none" /\ e.maxDepth.k = "none"
         ELSE /\ e.avgDepth.k = "num" /\ e.minDepth.k = "num" /\ e.maxDepth.k = "num"
              /\ 2 * (n * e.avgDepth.v - sum) <= n
              /\ 2 * (sum - n * e.avgDepth.v) <= n
              /\ \E j \in carry : wells[j].depth = e.minDepth.v
              /\ \E j \in carry : wells[j].depth = e.maxDepth.v
              /\ \A j \in carry : /\ e.minDepth.v <= wells[j].depth
                                  /\ wells[j].depth <= e.maxDepth.v

(* C5: every entry of index.json carries the tight bounding box and the    *)
(* record count of the file its file field names.                          *)
IndexDescribesFile ==
  pc = "done" =>
    \A i \in 1..Len(files[IndexPath].data) :
      LET e == files[IndexPath].data[i]
          recs == files[e.file].data
          at == 1..Len(recs)
      IN /\ e.count = Len(recs)
         /\ \A j \in at : /\ e.bounds.minLat <= recs[j].lat
                          /\ recs[j].lat <= e.bounds.maxLat
                          /\ e.bounds.minLon <= recs[j].lon
                          /\ recs[j].lon <= e.bounds.maxLon
         /\ \E j \in at : recs[j].lat = e.bounds.minLat
         /\ \E j \in at : recs[j].lat = e.bounds.maxLat
         /\ \E j \in at : recs[j].lon = e.bounds.minLon
         /\ \E j \in at : recs[j].lon = e.bounds.maxLon

(* the COUNTYNAME of the row is missing, empty or whitespace only *)
BlankCounty(row) ==
  row["COUNTYNAME"].p # "text" \/ Strip(row["COUNTYNAME"].s) = <<>>

(* C6: an accepted row with a blank or missing COUNTYNAME is grouped under *)
(* "Unknown", and after a completed run every record of that region is in  *)
(* unknown.json.                                                           *)
BlankCountyInUnknownFile ==
  /\ (Accepted /\ BlankCounty(last.row)) => last.county = Unknown
  /\ (pc = "done" /\ Unknown \in DOMAIN wells_by_county) =>
       /\ FileName(Unknown) \in DOMAIN files
       /\ \A i \in 1..Len(wells_by_county[Unknown]) :
            \E j \in 1..Len(files[FileName(Unknown)].data) :
               files[FileName(Unknown)].data[j] = wells_by_county[Unknown][i]

(* C7: the step for one row never raises: it ends in acceptance or in      *)
(* rejection whatever fields are missing, blank or unparseable, and a row  *)
(* with valid coordinates is accepted.                                     *)
RowStepNeverRaises ==
  /\ pc # "crashed"
  /\ Scanned => last.outcome \in {"accept", "reject"}
  /\ (Scanned /\ RowCoordsValid(last.row)) => Accepted

Date2010Slash == <<"0", "3", "/", "1", "5", "/", "2", "0", "1", "0">>
Date2010Hyphen == <<"2", "0", "1", "0", "-", "0", "3", "-", "1", "5">>
DateNotADate == <<"n", "o", "t", "-", "a", "-", "d", "a", "t", "e">>

SetMax(S) == CHOOSE x \in S : \A y \in S : y <= x

YearAbsent == "year" \notin DOMAIN last.well
YearIs(y) == "year" \in DOMAIN last.well /\ last.well.year = y

(* C8: the year of an accepted row is the integer value of the third of    *)
(* exactly three "/"-separated parts of DATEWORKENDED, otherwise, for a    *)
(* text with "-" and no "/", the integer value of its first 4 characters;  *)
(* a non-numeric part, another number of parts, a text shorter than 4      *)
(* characters, an empty text or a text with neither delimiter leaves the   *)
(* year absent.  "03/15/2010" and "2010-03-15" give 2010, "not-a-date" and *)
(* "" give no year.                                                        *)
YearDerivation ==
  Accepted =>
    LET f == last.row["DATEWORKENDED"]
        d == f.s
        slashes == {i \in 1..Len(d) : d[i] = "/"}
        hyphens == {i \in 1..Len(d) : d[i] = "-"}
        expected ==
          IF f.p # "text" \/ Len(d) < 4 THEN NoneV
          ELSE IF slashes # {}
               THEN IF Cardinality(slashes) = 2
                    THEN PyInt(SubSeq(d, SetMax(slashes) + 1, Len(d)))
                    ELSE NoneV
               ELSE IF hyphens # {} THEN PyInt(SubSeq(d, 1, 4)) ELSE NoneV
    IN /\ IF expected.k = "num" THEN YearIs(expected.v) ELSE YearAbsent
       /\ (f.p = "text" /\ d \in {Date2010Slash, Date2010Hyphen}) => YearIs(2010)
       /\ (f.p = "text" /\ d \in {DateNotADate, <<>>}) => YearAbsent

(* C8 witness: the row with DATEWORKENDED "03/15/2010" was accepted with   *)
(* year 2010.                                                              *)
YearFromSlashDate ==
  /\ Accepted
  /\ last.row["DATEWORKENDED"] = Txt(Date2010Slash)
  /\ YearIs(2010)

(* C9: while the source is being opened or read, and after a run that      *)
(* ended on the source (or in the loop body), no output has been written.  *)
NoOutputBeforeEndOfScan ==
  pc \in {"start", "open", "scan", "abort_mkdir", "abort_input", "crashed"} =>
    DOMAIN files = {} /\ log = <<>>

(* C9 witness: the source became unreadable after rows were accepted.      *)
SourceFailedAfterRows ==
  /\ pc = "abort_input"
  /\ records_with_coords > 0
  /\ DOMAIN wells_by_county # {}
  /\ DOMAIN files = {}

LoggedPaths == {log[i].path : i \in 1..Len(log)}

====
